---------------------------- MODULE Spec2Model ----------------------------
(***************************************************************************)
(* A model of rust-config-reader: the line grammar (the regular            *)
(* expressions of get_line_syntax_regex), the value normaliser parse_line, *)
(* the document builder parse_config_file, and the read accessors           *)
(* Config::get / get_or and ConfigurationItem::as_bool / as_bool_grf.      *)
(*                                                                         *)
(* A string is a sequence of one-character strings, so that the regular    *)
(* expressions are computed character by character.                        *)
(***************************************************************************)
EXTENDS Integers, Sequences, FiniteSets, TLC

VARIABLES
    file,       \* the lines of the configuration file, in order
    options,    \* Options {string_strictness, string_strictness_behavior}
    idx,        \* number of lines the `for line in file.lines()` loop has consumed
    config,     \* the Config being built: [map, cursor]
    result,     \* "running", or how read ended: "Ok", "InvalidSyntaxOnLine", "Panic"
    returned,   \* what read handed back: NoConfig or Returned(config)
    parts,      \* the pieces the second line of a one-item file was written from
    flat,       \* a Config of the two-level lookup variant (group -> key -> value)
    item,       \* the ConfigurationItem at hand, if any: the one the last line read
                \* was made into, or the one an accessor is called on
    call        \* the last accessor call and what it returned

vars == <<file, options, idx, config, result, returned, parts, flat, item, call>>

----------------------------------------------------------------------------
(* Bounds of the model *)

\* longest document of the builder specification, in lines
MaxLines == 3
\* longest value tail of the one-item files of LineSpec, in characters
MaxValLen == 5
\* longest item value of AccessSpec drawn from BoolAlphabet, in characters
MaxStrLen == 2

----------------------------------------------------------------------------
(* Characters and strings *)

LowerCase ==
    {"a","b","c","d","e","f","g","h","i","j","k","l","m",
     "n","o","p","q","r","s","t","u","v","w","x","y","z"}

Digits == {"0","1","2","3","4","5","6","7","8","9"}

\* what str::trim removes and what \s matches, among the characters modelled
Whitespace == {" ", "\t"}

\* All strings over alphabet `alpha` of length at most n
StringsUpTo(alpha, n) == UNION {[1..k -> alpha] : k \in 0..n}

\* Option<T>
None == [some |-> FALSE]
Some(v) == [some |-> TRUE, val |-> v]

\* Result<T, E>
Ok(v) == [ok |-> TRUE, val |-> v]
Err(e) == [ok |-> FALSE, err |-> e]

\* str::trim: drop leading and trailing whitespace
RECURSIVE TrimStart(_)
TrimStart(s) ==
    IF s # <<>> /\ Head(s) \in Whitespace THEN TrimStart(Tail(s)) ELSE s

RECURSIVE TrimEnd(_)
TrimEnd(s) ==
    IF s # <<>> /\ s[Len(s)] \in Whitespace
    THEN TrimEnd(SubSeq(s, 1, Len(s) - 1))
    ELSE s

trim(s) == TrimEnd(TrimStart(s))

----------------------------------------------------------------------------
(* LineSyntaxRegex: each regular expression as its matcher and captures *)

\* comment: ^#
comment_is_match(s) == s # <<>> /\ s[1] = "#"

\* [a-z][a-z_]* : the length of the longest prefix of s of that shape (0: none)
NameLen(s) ==
    IF s = <<>> \/ s[1] \notin LowerCase
    THEN 0
    ELSE CHOOSE n \in 1..Len(s) :
            /\ \A i \in 2..n : s[i] \in LowerCase \cup {"_"}
            /\ (n = Len(s) \/ s[n + 1] \notin LowerCase \cup {"_"})

\* group: ^\[([a-z][a-z_]*)\]$
group_is_match(s) ==
    /\ Len(s) >= 3
    /\ s[1] = "["
    /\ s[Len(s)] = "]"
    /\ NameLen(SubSeq(s, 2, Len(s) - 1)) = Len(s) - 2

\* the replacement that puts the whole match back ($0 for $1)
group_replace_WholeMatch(s) == s

\* regex.group.replace(&ln, "$1"): the match replaced by its first capture
group_replace(s) ==
    IF group_is_match(s) THEN SubSeq(s, 2, Len(s) - 1) ELSE s

\* item_any: ^([a-z][a-z_]*)\s?=\s?(.*?)$
\* The position of the "=" of a matching line, 0 when the line does not match.
\* The key is the longest name prefix (no shorter one can be followed by \s or =),
\* then at most one whitespace character, then "=".
ItemEqPos(s) ==
    LET n == NameLen(s) IN
    IF n = 0 THEN 0
    ELSE IF Len(s) >= n + 1 /\ s[n + 1] = "=" THEN n + 1
    ELSE IF Len(s) >= n + 2 /\ s[n + 1] \in Whitespace /\ s[n + 2] = "=" THEN n + 2
    ELSE 0

item_any_is_match(s) == ItemEqPos(s) > 0

\* regex.item_any.replace(line, "$1")
item_any_replace_1(s) ==
    IF item_any_is_match(s) THEN SubSeq(s, 1, NameLen(s)) ELSE s

\* regex.item_any.replace(line, "$2"): \s? is greedy and takes one whitespace
\* character after "=" when there is one; the rest of the line is the capture
item_any_replace_2(s) ==
    IF item_any_is_match(s)
    THEN LET e == ItemEqPos(s)
             from == IF Len(s) > e /\ s[e + 1] \in Whitespace THEN e + 2 ELSE e + 1
         IN SubSeq(s, from, Len(s))
    ELSE s

\* empty_line: ^\s*$
empty_line_is_match(s) == \A i \in 1..Len(s) : s[i] \in Whitespace

\* has_quotes: ^"(.*?)"$
has_quotes_is_match(s) == Len(s) >= 2 /\ s[1] = "\"" /\ s[Len(s)] = "\""

\* the replacement that puts the whole match back ($0 for $1)
has_quotes_replace_KeepsQuotes(s) == s

\* regex.has_quotes.replace(val, "$1")
has_quotes_replace(s) ==
    IF has_quotes_is_match(s) THEN SubSeq(s, 2, Len(s) - 1) ELSE s

\* has_whitespace: \s+
has_whitespace_is_match(s) == \E i \in 1..Len(s) : s[i] \in Whitespace

\* non_string_type: ^([0-9]+|true|false|yes|no|on|off)$
non_string_type_is_match(s) ==
    \/ (s # <<>> /\ \A i \in 1..Len(s) : s[i] \in Digits)
    \/ s = <<"t","r","u","e">>
    \/ s = <<"f","a","l","s","e">>
    \/ s = <<"y","e","s">>
    \/ s = <<"n","o">>
    \/ s = <<"o","n">>
    \/ s = <<"o","f","f">>

----------------------------------------------------------------------------
(* Options *)

StringStrictness == {"Loose", "Forgivable", "Very"}
StringStrictnessBehavior == {"Panic", "Ignore"}

AllOptions ==
    [string_strictness : StringStrictness,
     string_strictness_behavior : StringStrictnessBehavior]

get_default_options ==
    [string_strictness |-> "Loose", string_strictness_behavior |-> "Ignore"]

----------------------------------------------------------------------------
(* parse_line and is_line_valid *)

\* Forgivable without its test for whitespace: every unquoted string is rejected
parse_line_ForgivableRejectsAll(line, opts) ==
    LET key == trim(item_any_replace_1(line))
        val == trim(item_any_replace_2(line))
        has_quotes == has_quotes_is_match(val)
        is_string == ~non_string_type_is_match(val)
    IN  IF is_string /\ ~has_quotes /\ opts.string_strictness = "Very"
        THEN None
        ELSE IF is_string /\ ~has_quotes /\ opts.string_strictness = "Forgivable"
        THEN None
        ELSE Some(<<key, IF has_quotes THEN has_quotes_replace(val) ELSE val>>)

\* parse_line: Some(<<key, val>>), or None when the strictness rejects the value
parse_line(line, opts) ==
    LET key == trim(item_any_replace_1(line))
        val == trim(item_any_replace_2(line))
        has_quotes == has_quotes_is_match(val)
        has_whitespace == has_whitespace_is_match(val)
        is_string == ~non_string_type_is_match(val)
    IN  IF is_string /\ ~has_quotes /\ opts.string_strictness = "Very"
        THEN None
        ELSE IF is_string /\ ~has_quotes /\ has_whitespace
                /\ opts.string_strictness = "Forgivable"
        THEN None
        ELSE Some(<<key, IF has_quotes THEN has_quotes_replace(val) ELSE val>>)

\* the blank line left out of the valid shapes
is_line_valid_NoBlank(line) ==
    \/ comment_is_match(line)
    \/ group_is_match(line)
    \/ item_any_is_match(line)

is_line_valid(line) ==
    \/ comment_is_match(line)
    \/ group_is_match(line)
    \/ empty_line_is_match(line)
    \/ item_any_is_match(line)

----------------------------------------------------------------------------
(* Data model: ConfigurationItem, Group, Config *)

\* HashMap::new()
EmptyMap == [k \in {} |-> k]

\* HashMap::insert: the entry for k is set, replacing any earlier one
MapInsert(m, k, v) == [x \in DOMAIN m \cup {k} |-> IF x = k THEN v ELSE m[x]]

\* ConfigurationItem { key, value }
ConfigurationItem(key, value) == [key |-> key, value |-> value]

\* Group::new
GroupNew == [pairs |-> EmptyMap]

\* a Config that starts with its cursor on the empty name
ConfigNew_CursorSet == [map |-> EmptyMap, cursor |-> Some(<<>>)]

\* The Config parse_config_file starts from
ConfigNew == [map |-> EmptyMap, cursor |-> None]

\* Config::add_group: a new, empty group of that name is opened (replacing a
\* group of the same name) and becomes the cursor
add_group(cfg, name) ==
    [map |-> MapInsert(cfg.map, name, GroupNew), cursor |-> Some(name)]

\* Config::insert: the item is upserted into the group the cursor names; with
\* no group opened yet the item is dropped
insert(cfg, it) ==
    IF ~cfg.cursor.some
    THEN cfg
    ELSE [cfg EXCEPT !.map[cfg.cursor.val].pairs = MapInsert(@, it.key, it)]

----------------------------------------------------------------------------
(* parse_config_file *)

\* a header that keeps a group of that name as it is and only moves the cursor
HeaderStep_KeepsExistingGroup(cfg, ln) ==
    IF group_is_match(ln)
    THEN IF group_replace(ln) \in DOMAIN cfg.map
         THEN [cfg EXCEPT !.cursor = Some(group_replace(ln))]
         ELSE add_group(cfg, group_replace(ln))
    ELSE cfg

\* `if regex.group.is_match(&ln) { config.add_group(...) }`
HeaderStep(cfg, ln) ==
    IF group_is_match(ln)
    THEN add_group(cfg, group_replace(ln))
    ELSE cfg

\* an item is inserted only when its group does not hold the key yet
ItemStep_FirstDeclarationWins(cfg, ln, opts) ==
    IF item_any_is_match(ln)
    THEN LET e == parse_line(ln, opts) IN
         IF e.some
         THEN LET it == ConfigurationItem(e.val[1], e.val[2]) IN
              IF cfg.cursor.some /\ it.key \in DOMAIN cfg.map[cfg.cursor.val].pairs
              THEN [config |-> cfg, flow |-> "continue", item |-> None]
              ELSE [config |-> insert(cfg, it), flow |-> "continue", item |-> Some(it)]
         ELSE IF opts.string_strictness_behavior = "Panic"
              THEN [config |-> cfg, flow |-> "Panic", item |-> None]
              ELSE [config |-> cfg, flow |-> "continue", item |-> None]
    ELSE [config |-> cfg, flow |-> "continue", item |-> None]

\* an item met before any header opens a group of the empty name for itself
ItemStep_OrphanGroup(cfg, ln, opts) ==
    IF item_any_is_match(ln)
    THEN LET e == parse_line(ln, opts) IN
         IF e.some
         THEN LET it == ConfigurationItem(e.val[1], e.val[2]) IN
              [config |-> insert(IF cfg.cursor.some THEN cfg ELSE add_group(cfg, <<>>), it),
               flow |-> "continue", item |-> Some(it)]
         ELSE IF opts.string_strictness_behavior = "Panic"
              THEN [config |-> cfg, flow |-> "Panic", item |-> None]
              ELSE [config |-> cfg, flow |-> "continue", item |-> None]
    ELSE [config |-> cfg, flow |-> "continue", item |-> None]

\* the test of string_strictness_behavior the wrong way round
ItemStep_PanicInverted(cfg, ln, opts) ==
    IF item_any_is_match(ln)
    THEN LET e == parse_line(ln, opts) IN
         IF e.some
         THEN LET it == ConfigurationItem(e.val[1], e.val[2]) IN
              [config |-> insert(cfg, it), flow |-> "continue", item |-> Some(it)]
         ELSE IF opts.string_strictness_behavior # "Panic"
              THEN [config |-> cfg, flow |-> "Panic", item |-> None]
              ELSE [config |-> cfg, flow |-> "continue", item |-> None]
    ELSE [config |-> cfg, flow |-> "continue", item |-> None]

\* `if regex.item_any.is_match(&ln) { match parse_line(...) { ... } }`: the
\* Config after the line, how the loop goes on ("continue") or panics, and the
\* ConfigurationItem the line was made into and handed to config.insert, if any
ItemStep(cfg, ln, opts) ==
    IF item_any_is_match(ln)
    THEN LET e == parse_line(ln, opts) IN
         IF e.some
         THEN LET it == ConfigurationItem(e.val[1], e.val[2]) IN
              [config |-> insert(cfg, it), flow |-> "continue", item |-> Some(it)]
         ELSE IF opts.string_strictness_behavior = "Panic"
              THEN [config |-> cfg, flow |-> "Panic", item |-> None]
              ELSE [config |-> cfg, flow |-> "continue", item |-> None]
    ELSE [config |-> cfg, flow |-> "continue", item |-> None]

\* The body of `for line in file.lines()` on one raw line: the Config after
\* the line, and how the loop goes on ("continue"), returns
\* ("InvalidSyntaxOnLine") or panics ("Panic")
LoopBody(cfg, line, opts) ==
    LET ln == trim(line) IN
    IF ~is_line_valid(ln)
    THEN [config |-> cfg, flow |-> "InvalidSyntaxOnLine", item |-> None]
    ELSE ItemStep(HeaderStep(cfg, ln), ln, opts)

\* What ConfigReader::read hands back
NoConfig == [some |-> FALSE]
Returned(cfg) == [some |-> TRUE, val |-> cfg]

\* One iteration of the loop of parse_config_file
ProcessLine ==
    /\ result = "running"
    /\ idx < Len(file)
    /\ LET r == LoopBody(config, file[idx + 1], options) IN
        /\ config' = r.config
        /\ result' = IF r.flow = "continue" THEN "running" ELSE r.flow
        /\ item' = r.item
    /\ idx' = idx + 1
    /\ UNCHANGED <<file, options, returned, parts, flat, call>>

\* The lines are exhausted: Ok(config)
Finish ==
    /\ result = "running"
    /\ idx = Len(file)
    /\ result' = "Ok"
    /\ returned' = Returned(config)
    /\ UNCHANGED <<file, options, idx, config, parts, flat, item, call>>

Next == ProcessLine \/ Finish

----------------------------------------------------------------------------
(* The documents of the builder specification *)

HeaderA == <<"[","a","]">>
HeaderBPadded == <<" ","[","b","]","\t">>
ItemNumber == <<"k","=","1">>
ItemOneWord == <<"k"," ","="," ","x">>
ItemTwoWords == <<"k"," ","="," ","x"," ","y">>
ItemQuoted == <<"k","=","\"","x"," ","y","\"">>
ItemOtherKey == <<"j","_","=","o","n">>
CommentLine == <<"#"," ","k","=","1">>
BlankLine == <<" ">>
BadLine == <<"k"," ","x">>

DocLines ==
    {HeaderA, HeaderBPadded, ItemNumber, ItemOneWord, ItemTwoWords, ItemQuoted,
     ItemOtherKey, CommentLine, BlankLine, BadLine}

\* options.unwrap_or(get_default_options())
unwrap_or(o, default) == IF o.some THEN o.val ELSE default

OptionsArgs == {None} \cup {Some(o) : o \in AllOptions}

NoParts == [key |-> <<>>, pad1 |-> <<>>, pad2 |-> <<>>, val |-> <<>>, trail |-> <<>>]
NoItem == [some |-> FALSE]
NoCall == [op |-> "none"]

\* the headers and the accepted items, for documents one line longer
CoreLines == {HeaderA, HeaderBPadded, ItemNumber, ItemOneWord, ItemOtherKey}

\* any document of at most MaxLines lines, and the documents of MaxLines + 1
\* lines of headers and items
Documents == StringsUpTo(DocLines, MaxLines) \cup [1..(MaxLines + 1) -> CoreLines]

\* The builder starts on any of the documents
Init ==
    /\ file \in Documents
    /\ options \in {unwrap_or(o, get_default_options) : o \in OptionsArgs}
    /\ idx = 0
    /\ config = ConfigNew
    /\ result = "running"
    /\ returned = NoConfig
    /\ parts = NoParts
    /\ flat = [map |-> EmptyMap]
    /\ item = NoItem
    /\ call = NoCall

Spec == Init /\ [][Next]_vars

----------------------------------------------------------------------------
(* One-item files: `[a]` followed by an item line written from its pieces *)

\* characters of the value tails: a letter, whitespace, the quote, a digit
ValAlphabet == {"x", " ", "\"", "1"}

\* value tails with no whitespace at either end (padding is added around them)
Trimmed(S) == {v \in S : v = <<>> \/ (v[1] \notin Whitespace /\ v[Len(v)] \notin Whitespace)}

\* the word tokens of non_string_type and strings next to them
WordValues ==
    {<<"t","r","u","e">>, <<"f","a","l","s","e">>, <<"y","e","s">>, <<"n","o">>,
     <<"o","n">>, <<"o","f","f">>, <<"T","r","u","e">>, <<"o","n","e">>,
     <<"o","n"," ","x">>, <<"\"","o","n","\"">>, <<"1","2","0">>, <<"1",".","5">>}

LineValues == Trimmed(StringsUpTo(ValAlphabet, MaxValLen)) \cup WordValues

\* the whitespace written around "=" and at the end of the line
Paddings ==
    {[pad1 |-> <<>>, pad2 |-> <<>>, trail |-> <<>>],
     [pad1 |-> <<" ">>, pad2 |-> <<" ">>, trail |-> <<>>],
     [pad1 |-> <<"\t">>, pad2 |-> <<" ", " ">>, trail |-> <<" ">>]}

LineKeys == {<<"k","_","z">>}

AllParts ==
    {[key |-> k, pad1 |-> p.pad1, pad2 |-> p.pad2, val |-> v, trail |-> p.trail] :
        k \in LineKeys, p \in Paddings, v \in LineValues}

\* The item line `key = value` as text
Render(p) == p.key \o p.pad1 \o <<"=">> \o p.pad2 \o p.val \o p.trail

LineInit ==
    /\ parts \in AllParts
    /\ file = <<HeaderA, Render(parts)>>
    /\ options \in {unwrap_or(o, get_default_options) : o \in OptionsArgs}
    /\ idx = 0
    /\ config = ConfigNew
    /\ result = "running"
    /\ returned = NoConfig
    /\ flat = [map |-> EmptyMap]
    /\ item = NoItem
    /\ call = NoCall

LineSpec == LineInit /\ [][Next]_vars

----------------------------------------------------------------------------
(* Read accessors: Config::get, Config::get_or, as_bool, as_bool_grf *)

\* Config::has_group
has_group(cfg, group) == group \in DOMAIN cfg.map

\* the two errors of get the wrong way round
get_ErrorsSwapped(cfg, group, key) ==
    IF ~has_group(cfg, group)
    THEN Err("KeyInGroupNotFound")
    ELSE LET properties == cfg.map[group] IN
         IF key \notin DOMAIN properties
         THEN Err("GroupNotFound")
         ELSE Ok(properties[key])

\* Config::get
get(cfg, group, key) ==
    IF ~has_group(cfg, group)
    THEN Err("GroupNotFound")
    ELSE LET properties == cfg.map[group] IN
         IF key \notin DOMAIN properties
         THEN Err("KeyInGroupNotFound")
         ELSE Ok(properties[key])

\* Result::unwrap_or
result_unwrap_or(r, default) == IF r.ok THEN r.val ELSE default

\* Config::get_or
get_or(cfg, group, key, fallback) == result_unwrap_or(get(cfg, group, key), fallback)

\* "off" read as true
as_bool_OffIsTrue(it) ==
    CASE it.value = <<"1">> -> Ok(TRUE)
      [] it.value = <<"t","r","u","e">> -> Ok(TRUE)
      [] it.value = <<"y","e","s">> -> Ok(TRUE)
      [] it.value = <<"o","n">> -> Ok(TRUE)
      [] it.value = <<"0">> -> Ok(FALSE)
      [] it.value = <<"f","a","l","s","e">> -> Ok(FALSE)
      [] it.value = <<"n","o">> -> Ok(FALSE)
      [] it.value = <<"o","f","f">> -> Ok(TRUE)
      [] OTHER -> Err("InvalidBoolValue")

\* ConfigurationItem::as_bool
as_bool(it) ==
    CASE it.value = <<"1">> -> Ok(TRUE)
      [] it.value = <<"t","r","u","e">> -> Ok(TRUE)
      [] it.value = <<"y","e","s">> -> Ok(TRUE)
      [] it.value = <<"o","n">> -> Ok(TRUE)
      [] it.value = <<"0">> -> Ok(FALSE)
      [] it.value = <<"f","a","l","s","e">> -> Ok(FALSE)
      [] it.value = <<"n","o">> -> Ok(FALSE)
      [] it.value = <<"o","f","f">> -> Ok(FALSE)
      [] OTHER -> Err("InvalidBoolValue")

\* ConfigurationItem::as_bool_grf
as_bool_grf(it) == result_unwrap_or(as_bool(it), FALSE)

\* The Configs of the lookup variant: group -> key -> value
FlatGroups == {<<"a">>, <<"b">>}
FlatKeys == {<<"k">>, <<"j">>}
FlatValues == {<<"1">>, <<"x">>}
FlatProperties == UNION {[K -> FlatValues] : K \in SUBSET FlatKeys}
FlatConfigs == {[map |-> m] : m \in UNION {[G -> FlatProperties] : G \in SUBSET FlatGroups}}

\* what the callers ask for: names that may or may not be there
AskedGroups == FlatGroups
AskedKeys == FlatKeys
Fallbacks == {<<"f","b">>, <<"1">>}

\* item values: the tokens of as_bool, strings next to them, and every short
\* string over BoolAlphabet
BoolAlphabet == {"0", "1", "o", "n", "f", "O", " "}
NearBoolValues ==
    {<<"t","r","u","e">>, <<"y","e","s">>, <<"f","a","l","s","e">>, <<"o","f","f">>,
     <<"T","r","u","e">>, <<"T","R","U","E">>, <<"Y","e","s">>, <<"F","a","l","s","e">>,
     <<"O","f","f">>, <<"t","r","u">>, <<"t","r","u","e","e">>, <<"y">>, <<"t">>,
     <<"2">>, <<"m","a","y","b","e">>, <<"t","r","u","e"," ">>}
ItemValues == StringsUpTo(BoolAlphabet, MaxStrLen) \cup NearBoolValues

AccessInit ==
    /\ \/ flat \in FlatConfigs /\ item = NoItem
       \/ flat = [map |-> EmptyMap]
            /\ item \in {Some(ConfigurationItem(<<"k">>, v)) : v \in ItemValues}
    /\ file = <<>>
    /\ options = get_default_options
    /\ idx = 0
    /\ config = ConfigNew
    /\ result = "running"
    /\ returned = NoConfig
    /\ parts = NoParts
    /\ call = NoCall

\* cfg.get(group, key)
Get(g, k) ==
    /\ ~item.some
    /\ call' = [op |-> "get", group |-> g, key |-> k, ret |-> get(flat, g, k)]
    /\ UNCHANGED <<file, options, idx, config, result, returned, parts, flat, item>>

\* cfg.get_or(group, key, fallback)
GetOr(g, k, fb) ==
    /\ ~item.some
    /\ call' = [op |-> "get_or", group |-> g, key |-> k, fallback |-> fb,
                ret |-> get_or(flat, g, k, fb)]
    /\ UNCHANGED <<file, options, idx, config, result, returned, parts, flat, item>>

\* item.as_bool()
AsBool ==
    /\ item.some
    /\ call' = [op |-> "as_bool", ret |-> as_bool(item.val)]
    /\ UNCHANGED <<file, options, idx, config, result, returned, parts, flat, item>>

\* item.as_bool_grf()
AsBoolGrf ==
    /\ item.some
    /\ call' = [op |-> "as_bool_grf", ret |-> as_bool_grf(item.val)]
    /\ UNCHANGED <<file, options, idx, config, result, returned, parts, flat, item>>

AccessNext ==
    \/ \E g \in AskedGroups, k \in AskedKeys : Get(g, k)
    \/ \E g \in AskedGroups, k \in AskedKeys, fb \in Fallbacks : GetOr(g, k, fb)
    \/ AsBool
    \/ AsBoolGrf

AccessSpec == AccessInit /\ [][AccessNext]_vars

----------------------------------------------------------------------------
(* Vocabulary of the properties: the document as the properties read it *)

Max(S) == CHOOSE x \in S : \A y \in S : y <= x
Min(S) == CHOOSE x \in S : \A y \in S : x <= y

\* line i of the file, trimmed
Ln(i) == trim(file[i])

\* The four shapes of the grammar, in priority order, or "none"
Shape(s) ==
    IF s # <<>> /\ Head(s) = "#" THEN "comment"
    ELSE IF group_is_match(s) THEN "group"
    ELSE IF \A i \in 1..Len(s) : s[i] \in Whitespace THEN "blank"
    ELSE IF item_any_is_match(s) THEN "item"
    ELSE "none"

Lines == 1..Len(file)
BadLines == {i \in Lines : Shape(Ln(i)) = "none"}
Headers == {i \in Lines : Shape(Ln(i)) = "group"}
Items == {i \in Lines : Shape(Ln(i)) = "item"}
HeaderName(h) == SubSeq(Ln(h), 2, Len(Ln(h)) - 1)

\* item lines the strictness policy lets through, and what they declare
Accepted == {i \in Items : parse_line(Ln(i), options).some}
Rejected == Items \ Accepted
ItemKey(i) == parse_line(Ln(i), options).val[1]
ItemValue(i) == parse_line(Ln(i), options).val[2]

\* the nearest header before line i (0: none), and the lines of header h's section
OpenHeader(i) == Max({0} \cup {h \in Headers : h < i})
Section(h) == {i \in Lines : OpenHeader(i) = h}

Panics == options.string_strictness_behavior = "Panic"
Ended == result # "running"

----------------------------------------------------------------------------
(* C1 *)

\* C1 as stated: once read has ended, a line of no shape anywhere in the
\* document means Err(InvalidSyntaxOnLine) and no Config; and with every line
\* of some shape read does not end in InvalidSyntaxOnLine.
C1_AsStated ==
    Ended =>
        /\ BadLines # {} => result = "InvalidSyntaxOnLine" /\ returned = NoConfig
        /\ BadLines = {} => result # "InvalidSyntaxOnLine"

\* C1 amended: a line of no shape means that no Config is returned, and that
\* read returns Err(InvalidSyntaxOnLine) unless, under Panic, an item line
\* before the first such line is rejected by the strictness policy: then read
\* panics at that item line. With every line of some shape read never returns
\* InvalidSyntaxOnLine.
C1_SyntaxViolationAborts ==
    Ended =>
        /\ BadLines # {} =>
            /\ returned = NoConfig
            /\ IF Panics /\ \E j \in Rejected : j < Min(BadLines)
               THEN result = "Panic"
               ELSE result = "InvalidSyntaxOnLine" /\ idx = Min(BadLines)
        /\ BadLines = {} => result # "InvalidSyntaxOnLine"

\* a line of no shape between a header and a further line ends the parse there
C1_Witness ==
    /\ result = "InvalidSyntaxOnLine"
    /\ idx < Len(file)
    /\ config.map # EmptyMap
    /\ returned = NoConfig

----------------------------------------------------------------------------
(* C2 and C3: the one-item files of LineSpec *)

Quote == "\""

\* the value is wrapped in a pair of double quotes spanning the whole of it
WrappedInQuotes(v) == Len(v) >= 2 /\ v[1] = Quote /\ v[Len(v)] = Quote
InnerText(v) == SubSeq(v, 2, Len(v) - 1)

ContainsWhitespace(v) == \E i \in 1..Len(v) : v[i] \in Whitespace

\* the value looks like a primitive: ^([0-9]+|true|false|yes|no|on|off)$
NonStringWords ==
    {<<"t","r","u","e">>, <<"f","a","l","s","e">>, <<"y","e","s">>,
     <<"n","o">>, <<"o","n">>, <<"o","f","f">>}
PrimitiveShaped(v) ==
    v \in NonStringWords \/ (Len(v) >= 1 /\ {v[i] : i \in 1..Len(v)} \subseteq Digits)

\* the item line of the file has been processed
ItemLineDone == idx = 2

\* the item line was accepted: it was made into the ConfigurationItem (key, v)
\* for config.insert, and nothing failed
AcceptedAs(v) ==
    /\ result \in {"running", "Ok"}
    /\ item = Some([key |-> parts.key, value |-> v])

\* the item line was rejected: no ConfigurationItem was made of it
NotAccepted == item = None

\* C2: an unquoted value that looks like a primitive is accepted under every
\* strictness; an unquoted string-like value is accepted as it is under Loose,
\* under Forgivable accepted exactly when it holds no whitespace, and under
\* Very rejected.
C2_StrictnessPolicy ==
    (ItemLineDone /\ ~WrappedInQuotes(parts.val)) =>
        IF PrimitiveShaped(parts.val)
        THEN AcceptedAs(parts.val)
        ELSE CASE options.string_strictness = "Loose" -> AcceptedAs(parts.val)
               [] options.string_strictness = "Forgivable" ->
                    IF ContainsWhitespace(parts.val)
                    THEN NotAccepted
                    ELSE AcceptedAs(parts.val)
               [] options.string_strictness = "Very" -> NotAccepted

\* Forgivable has rejected an unquoted value of two words
C2_Witness ==
    /\ ItemLineDone
    /\ options.string_strictness = "Forgivable"
    /\ parts.val = <<"x", " ", "x">>
    /\ NotAccepted

\* C3: a value wrapped in double quotes whose inner text holds whitespace is
\* accepted under Loose, Forgivable and Very alike, and the value stored is the
\* inner text, the surrounding quotes removed.
C3_QuotedValueUnquoted ==
    (ItemLineDone /\ WrappedInQuotes(parts.val)
        /\ ContainsWhitespace(InnerText(parts.val))) =>
            AcceptedAs(InnerText(parts.val))

\* Very has accepted the quoted value "x 1" and stored x 1
C3_Witness ==
    /\ ItemLineDone
    /\ options.string_strictness = "Very"
    /\ parts.val = <<Quote, "x", " ", "1", Quote>>
    /\ AcceptedAs(<<"x", " ", "1">>)

----------------------------------------------------------------------------
(* C4 .. C6, C9, C10: the documents of Spec *)

\* the last header that names group g, and the headers that name a group an
\* earlier header named already
LastHeaderOf(g) == Max({h \in Headers : HeaderName(h) = g})
Reopening == {h \in Headers : \E e \in Headers : e < h /\ HeaderName(e) = HeaderName(h)}

\* the accepted item lines of the section of header h
AcceptedIn(h) == Section(h) \cap Accepted

\* the last accepted line of the section of header h that declares key k
LastDeclaring(h, k) == Max({j \in AcceptedIn(h) : ItemKey(j) = k})

PreHeaderItems == {i \in Items : OpenHeader(i) = 0}

\* every stored pair comes from an accepted item line under a header of the
\* group's name
EveryPairHasItsLine(cfg) ==
    \A g \in DOMAIN cfg.map : \A k \in DOMAIN cfg.map[g].pairs :
        \E j \in Accepted :
            /\ OpenHeader(j) # 0
            /\ HeaderName(OpenHeader(j)) = g
            /\ cfg.map[g].pairs[k] = [key |-> ItemKey(j), value |-> ItemValue(j)]
            /\ k = ItemKey(j)

\* C5 as stated: an item line before the first header causes no error and
\* puts nothing into any group, and a document of valid lines with no header
\* parses successfully to a Config of zero groups.
C5_AsStated ==
    /\ \A i \in PreHeaderItems : idx = i => result \in {"running", "Ok"}
    /\ result = "Ok" => EveryPairHasItsLine(returned.val)
    /\ (Headers = {} /\ BadLines = {} /\ idx = Len(file)) =>
            /\ result \in {"running", "Ok"}
            /\ result = "Ok" => returned.val.map = EmptyMap

\* C5 amended: an item line before the first header causes no error unless
\* the strictness policy rejects it under Panic (then read panics at it), and
\* it puts nothing into any group; a document of valid lines with no header,
\* none of them rejected under Panic, parses successfully to a Config of zero
\* groups.
C5_PreHeaderItemsDropped ==
    /\ \A i \in PreHeaderItems : idx = i =>
            IF Panics /\ i \in Rejected
            THEN result = "Panic"
            ELSE result \in {"running", "Ok"} /\ config.map = EmptyMap
    /\ result = "Ok" => EveryPairHasItsLine(returned.val)
    /\ (Headers = {} /\ BadLines = {} /\ idx = Len(file)
            /\ ~(Panics /\ Rejected # {})) =>
            /\ result \in {"running", "Ok"}
            /\ result = "Ok" => returned.val.map = EmptyMap

\* an accepted item before the first header, a group after it that lacks its key
C5_Witness ==
    /\ result = "Ok"
    /\ 1 \in PreHeaderItems \cap Accepted
    /\ \E g \in DOMAIN returned.val.map : ItemKey(1) \notin DOMAIN returned.val.map[g].pairs

\* the next line of the loop is an item line the strictness policy rejects
RejectedNext == result = "running" /\ idx < Len(file) /\ (idx + 1) \in Rejected

\* C6: when the strictness policy rejects an item line, under Ignore the step
\* leaves the Config as it was, the loop goes on with the next line and the
\* rejection is no error (a document of valid lines still ends in Ok with the
\* Config built); under Panic the step ends read in a panic, no Config is
\* returned and nothing happens after it.
C6_RejectionBehaviour ==
    /\ [][RejectedNext =>
            IF Panics
            THEN result' = "Panic" /\ returned' = NoConfig /\ idx' = idx + 1
            ELSE /\ config' = config
                 /\ item' = None
                 /\ idx' = idx + 1
                 /\ result' = "running"
                 /\ returned' = returned]_vars
    /\ [][result # "Panic"]_vars
    /\ [](result = "Panic" => returned = NoConfig /\ idx \in Rejected)
    /\ []((~Panics /\ BadLines = {} /\ Ended) =>
            result = "Ok" /\ returned = Returned(config))

\* under Ignore a rejected line lies between two accepted ones, and read is Ok
C6_Witness ==
    /\ result = "Ok"
    /\ ~Panics
    /\ Len(file) = 3
    /\ 2 \in Rejected
    /\ file[1] = HeaderA
    /\ file[3] = ItemOtherKey
    /\ DOMAIN returned.val.map[<<"a">>].pairs = {<<"j","_">>}

\* C9: after a successful parse, a group named by more than one header holds
\* exactly the items accepted in the section of the last header of that name,
\* each key with the value of the last line declaring it there, and nothing
\* of the earlier sections of that name.
C9_ReopenedGroupReplaced ==
    result = "Ok" =>
        \A h \in Reopening : h = LastHeaderOf(HeaderName(h)) =>
            /\ HeaderName(h) \in DOMAIN returned.val.map
            /\ LET pairs == returned.val.map[HeaderName(h)].pairs IN
                /\ DOMAIN pairs = {ItemKey(j) : j \in AcceptedIn(h)}
                /\ \A k \in DOMAIN pairs :
                    pairs[k] = [key |-> k, value |-> ItemValue(LastDeclaring(h, k))]

\* [a], k=1, [a], j_=on: group a ends up with j_ alone
C9_Witness ==
    /\ result = "Ok"
    /\ file = <<HeaderA, ItemNumber, HeaderA, ItemOtherKey>>
    /\ DOMAIN returned.val.map[<<"a">>].pairs = {<<"j", "_">>}

\* C10: while the builder runs, the cursor is unset or names a group of the
\* Config's map, and it is unset exactly as long as no header was processed.
C10_CursorNamesGroup ==
    /\ config.cursor.some => config.cursor.val \in DOMAIN config.map
    /\ ~config.cursor.some <=> ~\E h \in Headers : h <= idx

\* two groups are open, the cursor on the second
C10_Witness ==
    /\ config.cursor = Some(<<"b">>)
    /\ DOMAIN config.map = {<<"a">>, <<"b">>}
    /\ result = "running"

----------------------------------------------------------------------------
(* C11: the groups and items of the Config returned *)

\* the names the header lines of the document give
HeaderNames == {HeaderName(h) : h \in Headers}

\* the accepted item lines that follow a header
AcceptedUnderHeader == {i \in Accepted : OpenHeader(i) # 0}

\* the item of line i is in the group its nearest preceding header names
StoredUnderItsHeader(cfg, i) ==
    LET g == HeaderName(OpenHeader(i)) IN
    /\ g \in DOMAIN cfg.map
    /\ ItemKey(i) \in DOMAIN cfg.map[g].pairs
    /\ cfg.map[g].pairs[ItemKey(i)] = [key |-> ItemKey(i), value |-> ItemValue(i)]

\* the item of line i outlives the parse: no later accepted line of its
\* section declares its key, and no later header opens its group's name again
Survives(i) ==
    LET h == OpenHeader(i) IN
    /\ h = LastHeaderOf(HeaderName(h))
    /\ i = LastDeclaring(h, ItemKey(i))

\* C11 as stated: after a successful parse the group names of the Config are
\* the names of the header lines, every accepted item line under a header is
\* stored in the group its nearest preceding header names, and no group holds
\* anything else.
C11_AsStated ==
    result = "Ok" =>
        /\ DOMAIN returned.val.map = HeaderNames
        /\ \A i \in AcceptedUnderHeader : StoredUnderItsHeader(returned.val, i)
        /\ EveryPairHasItsLine(returned.val)

\* C11 amended: after a successful parse the group names of the Config are
\* the names of the header lines (a header with no accepted item after it
\* gives an empty group; comments and blank lines add nothing); an accepted
\* item line under a header is stored in the group its nearest preceding
\* header names provided no later accepted line of the same section declares
\* the same key and no later header opens that name again; and every stored
\* item comes from such a line, so that it is in no other group.
C11_GroupsAndItems ==
    result = "Ok" =>
        /\ DOMAIN returned.val.map = HeaderNames
        /\ \A i \in AcceptedUnderHeader :
                Survives(i) => StoredUnderItsHeader(returned.val, i)
        /\ \A g \in DOMAIN returned.val.map : \A k \in DOMAIN returned.val.map[g].pairs :
                \E i \in AcceptedUnderHeader :
                    /\ Survives(i)
                    /\ HeaderName(OpenHeader(i)) = g
                    /\ ItemKey(i) = k
                    /\ returned.val.map[g].pairs[k] = [key |-> k, value |-> ItemValue(i)]

\* [a], [b], k=1: group a is empty, group b holds k
C11_Witness ==
    /\ result = "Ok"
    /\ file = <<HeaderA, HeaderBPadded, ItemNumber>>
    /\ DOMAIN returned.val.map = {<<"a">>, <<"b">>}
    /\ returned.val.map[<<"a">>].pairs = EmptyMap
    /\ returned.val.map[<<"b">>].pairs[<<"k">>].value = <<"1">>

----------------------------------------------------------------------------
(* C7 and C8: the accessor calls of AccessSpec *)

\* C7: get returns Err(GroupNotFound) exactly when the group is not in the
\* Config, Err(KeyInGroupNotFound) exactly when the group is there and the key
\* is not in it, and Ok of the stored value otherwise; get_or returns the
\* stored value where get succeeds and the fallback in both error cases; and
\* no call changes the Config.
C7_GetAndGetOr ==
    /\ [](call.op = "get" =>
            LET hasGroup == call.group \in DOMAIN flat.map
                hasKey == hasGroup /\ call.key \in DOMAIN flat.map[call.group]
            IN  /\ call.ret = Err("GroupNotFound") <=> ~hasGroup
                /\ call.ret = Err("KeyInGroupNotFound") <=> (hasGroup /\ ~hasKey)
                /\ hasKey => call.ret = Ok(flat.map[call.group][call.key]))
    /\ [](call.op = "get_or" =>
            LET hasKey == /\ call.group \in DOMAIN flat.map
                          /\ call.key \in DOMAIN flat.map[call.group]
            IN  call.ret = IF hasKey
                           THEN flat.map[call.group][call.key]
                           ELSE call.fallback)
    /\ [][flat' = flat]_vars

\* get on a group that is there, for a key that is not
C7_Witness ==
    /\ call.op = "get"
    /\ call.group \in DOMAIN flat.map
    /\ flat.map[call.group] # EmptyMap
    /\ call.ret = Err("KeyInGroupNotFound")

TrueWords == {<<"1">>, <<"t","r","u","e">>, <<"y","e","s">>, <<"o","n">>}
FalseWords == {<<"0">>, <<"f","a","l","s","e">>, <<"n","o">>, <<"o","f","f">>}

\* C8: as_bool returns Ok(true) exactly on 1, true, yes, on, Ok(false) exactly
\* on 0, false, no, off, and Err(InvalidBoolValue) on every other string;
\* as_bool_grf returns true exactly when as_bool returns Ok(true), and false
\* otherwise.
C8_BoolCoercion ==
    /\ call.op = "as_bool" =>
        /\ call.ret = Ok(TRUE) <=> item.val.value \in TrueWords
        /\ call.ret = Ok(FALSE) <=> item.val.value \in FalseWords
        /\ call.ret = Err("InvalidBoolValue") <=>
                item.val.value \notin TrueWords \cup FalseWords
    /\ call.op = "as_bool_grf" =>
        /\ call.ret \in BOOLEAN
        /\ call.ret <=> item.val.value \in TrueWords
        /\ call.ret <=> as_bool(item.val) = Ok(TRUE)

\* as_bool_grf on a value that is no boolean word is false
C8_Witness ==
    /\ call.op = "as_bool_grf"
    /\ item.val.value = <<"O", "n">>
    /\ call.ret = FALSE

=============================================================================
